---------------------------- MODULE Spec2Model ----------------------------
(***************************************************************************)
(* A model of app.py, the certificate generator.                           *)
(*                                                                         *)
(* Two parts of the script are modelled.                                   *)
(*   - The "Generate certificates ZIP" handler (app.py 293-480): the       *)
(*     checks that stop the run, the template bytes, the task list, and    *)
(*     the generation loop, one iteration per step.  Specification Spec.   *)
(*   - draw_name_on_template (app.py 103-154) with load_font, cm_to_px     *)
(*     and the font-path globals: font choice, autofit and placement,      *)
(*     one step per stage of the function.  Specification SpecRender.      *)
(*                                                                         *)
(* Strings the code edits character by character (names, archive paths)    *)
(* are sequences of one-character strings; a folder name and a file        *)
(* extension are one element each.                                         *)
(***************************************************************************)
EXTENDS Integers, Sequences, FiniteSets, TLC

\* ------------------------------------------------------------------------
\* Bounds of the model
\* ------------------------------------------------------------------------

\* The most cells the three name columns hold together in one run.
MaxTasks == 3

\* ------------------------------------------------------------------------
\* Values
\* ------------------------------------------------------------------------

\* The keys of group_counts, in the order the task list is built.
Groups == <<"QUALIFIED", "PARTICIPATED", "SMART_EDGE_WORKSHOP">>

GroupSet == {Groups[i] : i \in 1..Len(Groups)}

\* Python's None.
None == "None"

\* What an uploaded file or a file on disk can hold: nothing (no upload, no
\* file), bytes that fitz cannot open as a PDF with a page, or a PDF.
NoFile == "none"

Garbage == "garbage"

Pdf == "pdf"

FileKinds == {NoFile, Garbage, Pdf}

\* A cell of a name column that pandas reads as missing.
NaN == <<"NaN">>

\* The cell texts the name columns draw from: a whitespace-only cell and two
\* names that differ only in their path separator, one with a trailing blank.
RawNames == { <<" ">>, <<"A", "/", "B">>, <<"A", "\\", "B", " ">> }

Cells == RawNames \cup {NaN}

\* The columns of at most n cells.
ColumnsUpTo(n) == UNION {[1..k -> Cells] : k \in 0..n}

\* ------------------------------------------------------------------------
\* String helpers
\* ------------------------------------------------------------------------

RECURSIVE LStrip(_)
LStrip(s) == IF s # <<>> /\ Head(s) = " " THEN LStrip(Tail(s)) ELSE s

RECURSIVE RStrip(_)
RStrip(s) ==
    IF s # <<>> /\ s[Len(s)] = " " THEN RStrip(SubSeq(s, 1, Len(s) - 1)) ELSE s

\* str.strip()
Strip(s) == RStrip(LStrip(s))

\* str(name).replace("/", "_").replace("\\", "_")
SafeName(name) ==
    [i \in 1..Len(name) |-> IF name[i] \in {"/", "\\"} THEN "_" ELSE name[i]]

DigitChars == <<"0", "1", "2", "3", "4", "5", "6", "7", "8", "9">>

\* The decimal digits of n >= 0, as an f-string formats an int.
RECURSIVE IntStr(_)
IntStr(n) ==
    IF n < 10 THEN <<DigitChars[n + 1]>>
    ELSE IntStr(n \div 10) \o <<DigitChars[(n % 10) + 1]>>

\* f"{folder}/{safe_name}.pdf"
PdfPath(folder, safe_name) == <<folder, "/">> \o safe_name \o <<".pdf">>

\* f"{folder}/{safe_name}_{suffix}.pdf"
SuffixedPath(folder, safe_name, suffix) ==
    <<folder, "/">> \o safe_name \o <<"_">> \o IntStr(suffix) \o <<".pdf">>

\* f"{folder}/{safe_name}_ERROR.txt"
ErrPath(folder, safe_name) == <<folder, "/">> \o safe_name \o <<"_ERROR.txt">>

\* collections.Counter lookup: a key never counted reads 0.
CounterGet(c, k) == IF k \in DOMAIN c THEN c[k] ELSE 0

\* c[k] += 1
CounterInc(c, k) ==
    [x \in DOMAIN c \cup {k} |-> IF x = k THEN CounterGet(c, k) + 1 ELSE c[x]]

\* ------------------------------------------------------------------------
\* State
\* ------------------------------------------------------------------------

VARIABLES
    pc,              \* where the Generate handler is
    stop_reason,     \* why st.stop() ended the run, or None
    gen,             \* gen_qualified, gen_participated, gen_smartedge, by group
    sheet,           \* qualified_sheet, participated_sheet, smartedge_sheet found
    tpl_bytes,       \* qual_bytes, part_bytes, smart_bytes, by group
    names,           \* q_names, p_names, s_names, by group
    tasks,           \* the list of (group, name)
    group_counts,
    group_done,
    used_zip_names,
    idx,             \* the loop's enumerate index: tasks done so far
    zf,              \* the entries written to the ZipFile, in order
    opens            \* fitz.open + get_pixmap calls so far, by group

batchVars == <<pc, stop_reason, gen, sheet, tpl_bytes, names, tasks, group_counts,
               group_done, used_zip_names, idx, zf, opens>>

ZeroCounts == [g \in GroupSet |-> 0]

BatchInit ==
    /\ pc = "idle"
    /\ stop_reason = None
    /\ gen = [g \in GroupSet |-> FALSE]
    /\ sheet = [g \in GroupSet |-> FALSE]
    /\ tpl_bytes = [g \in GroupSet |-> None]
    /\ names = [g \in GroupSet |-> <<>>]
    /\ tasks = <<>>
    /\ group_counts = ZeroCounts
    /\ group_done = ZeroCounts
    /\ used_zip_names = <<>>
    /\ idx = 0
    /\ zf = <<>>
    /\ opens = ZeroCounts

Stop(reason) ==
    /\ pc' = "stopped"
    /\ stop_reason' = reason


\* ------------------------------------------------------------------------
\* The Generate handler up to the loop
\* ------------------------------------------------------------------------

\* Lines 293-326: the button is clicked with the checkboxes as they are
\* (sel), some Excel upload (excel) and the sheets the workbook holds (found).
ClickGenerate ==
    /\ pc = "idle"
    /\ \E sel \in [GroupSet -> BOOLEAN],
          excel \in {"none", "unreadable", "ok"},
          found \in [GroupSet -> BOOLEAN] :
          /\ gen' = sel
          /\ IF \A g \in GroupSet : ~sel[g]
               THEN Stop("nothing_selected") /\ UNCHANGED sheet
             ELSE IF excel = "none"
               THEN Stop("no_excel") /\ UNCHANGED sheet
             ELSE IF excel = "unreadable"
               THEN Stop("cannot_read_excel") /\ UNCHANGED sheet
             ELSE /\ pc' = "templates"
                  /\ sheet' = found
                  /\ UNCHANGED stop_reason
    /\ UNCHANGED <<tpl_bytes, names, tasks, group_counts, group_done,
                   used_zip_names, idx, zf, opens>>

\* fetch_template_bytes: the upload first, else the default path if it exists.
fetch_template_bytes(uploaded, default_path) ==
    IF uploaded # NoFile THEN uploaded
    ELSE IF default_path # NoFile THEN default_path
    ELSE None

\* Python's "a or b" on bytes-or-None (the bytes here are never empty).
PyOr(a, b) == IF a # None THEN a ELSE b

\* The files a default or fallback path can hold.
DiskKinds == {NoFile, Pdf}

\* Lines 328-361: the template bytes of the selected groups, in the order
\* QUALIFIED, PARTICIPATED, SMART EDGE; the first missing one stops the run.
PickTemplates ==
    /\ pc = "templates"
    /\ \E uploaded \in [GroupSet -> FileKinds],
          on_disk \in [GroupSet -> DiskKinds],
          fallback \in [{"QUALIFIED", "PARTICIPATED"} -> DiskKinds] :
          LET q == IF gen["QUALIFIED"]
                     THEN PyOr(fetch_template_bytes(uploaded["QUALIFIED"],
                                                    on_disk["QUALIFIED"]),
                               fetch_template_bytes(NoFile, fallback["QUALIFIED"]))
                     ELSE None
              p == IF gen["PARTICIPATED"]
                     THEN PyOr(fetch_template_bytes(uploaded["PARTICIPATED"],
                                                    on_disk["PARTICIPATED"]),
                               fetch_template_bytes(NoFile, fallback["PARTICIPATED"]))
                     ELSE None
              s == IF gen["SMART_EDGE_WORKSHOP"]
                     THEN fetch_template_bytes(uploaded["SMART_EDGE_WORKSHOP"],
                                               on_disk["SMART_EDGE_WORKSHOP"])
                     ELSE None
              set(qb, pb, sb) ==
                  tpl_bytes' = [tpl_bytes EXCEPT !["QUALIFIED"] = qb,
                                                 !["PARTICIPATED"] = pb,
                                                 !["SMART_EDGE_WORKSHOP"] = sb]
          IN  IF gen["QUALIFIED"] /\ q = None
                THEN Stop("missing_template") /\ set(None, None, None)
              ELSE IF gen["PARTICIPATED"] /\ p = None
                THEN Stop("missing_template") /\ set(q, None, None)
              ELSE IF gen["SMART_EDGE_WORKSHOP"] /\ s = None
                THEN Stop("missing_template") /\ set(q, p, None)
              ELSE IF gen["SMART_EDGE_WORKSHOP"] /\ ~sheet["SMART_EDGE_WORKSHOP"]
                THEN Stop("missing_sheet") /\ set(q, p, s)
              ELSE /\ pc' = "read"
                   /\ set(q, p, s)
                   /\ UNCHANGED stop_reason
    /\ UNCHANGED <<gen, sheet, names, tasks, group_counts, group_done,
                   used_zip_names, idx, zf, opens>>

\* df.iloc[:, 0].dropna().astype(str).tolist()
RECURSIVE DropNa(_)
DropNa(col) ==
    IF col = <<>> THEN <<>>
    ELSE IF Head(col) = NaN THEN DropNa(Tail(col))
    ELSE <<Head(col)>> \o DropNa(Tail(col))

\* GroupTasks with the names of a group taken last to first.
GroupTasksReversed(g, ns) ==
    [i \in 1..Len(ns) |-> [group |-> g, name |-> Strip(ns[Len(ns) + 1 - i])]]

\* [(group, n.strip()) for n in names]
GroupTasks(g, ns) ==
    [i \in 1..Len(ns) |-> [group |-> g, name |-> Strip(ns[i])]]

\* Lines 390-403 for one group: the names of its column when the group is
\* selected and its dataframe is not empty, else none.
NamesOf(g, df) == IF gen[g] /\ df[g] # <<>> THEN DropNa(df[g]) ELSE <<>>

\* Lines 387-403: the task list, group by group in the order QUALIFIED,
\* PARTICIPATED, SMART_EDGE_WORKSHOP.
AllTasks(ns) ==
    GroupTasks(Groups[1], ns[Groups[1]])
      \o GroupTasks(Groups[2], ns[Groups[2]])
      \o GroupTasks(Groups[3], ns[Groups[3]])

\* GroupCounts with the names that are blank after trimming left out.
GroupCountsNonBlank(ns) ==
    [g \in GroupSet |->
        Cardinality({i \in 1..Len(ns[g]) : Strip(ns[g][i]) # <<>>})]

\* Lines 388, 392, 397, 402: group_counts[group] = len(names of the group).
GroupCounts(ns) == [g \in GroupSet |-> Len(ns[g])]

\* Lines 363-423: read the sheets of the selected groups (cq, cp, cs: the
\* first column of each sheet), build tasks and group_counts, reset the
\* counters.
BuildTasks ==
    /\ pc = "read"
    /\ \E read_ok \in BOOLEAN,
          cq \in ColumnsUpTo(MaxTasks) :
       \E cp \in ColumnsUpTo(MaxTasks - Len(cq)) :
       \E cs \in ColumnsUpTo(MaxTasks - Len(cq) - Len(cp)) :
          LET cols == [g \in GroupSet |->
                          IF g = "QUALIFIED" THEN cq
                          ELSE IF g = "PARTICIPATED" THEN cp ELSE cs]
              \* a sheet is read only when it was found and its group selected
              df == [g \in GroupSet |->
                          IF sheet[g] /\ gen[g] THEN cols[g] ELSE <<>>]
              ns == [g \in GroupSet |-> NamesOf(g, df)]
          IN  IF ~read_ok
                THEN /\ Stop("read_failed")
                     /\ UNCHANGED <<names, tasks, group_counts>>
              ELSE /\ names' = ns
                   /\ tasks' = AllTasks(ns)
                   /\ group_counts' = GroupCounts(ns)
                   /\ IF Len(AllTasks(ns)) = 0
                        THEN Stop("no_names")
                        ELSE pc' = "loop" /\ UNCHANGED stop_reason
    /\ group_done' = ZeroCounts
    /\ used_zip_names' = <<>>
    /\ idx' = 0
    /\ zf' = <<>>
    /\ UNCHANGED <<gen, sheet, tpl_bytes, opens>>

\* ------------------------------------------------------------------------
\* The generation loop
\* ------------------------------------------------------------------------

\* RenderOutcome without the failure of fitz.open on unusable bytes.
RenderOutcomeNoOpenCheck(bytes, fault) ==
    IF fault THEN "render_failed" ELSE "pdf_bytes"

\* What the call of draw_name_on_template and image_to_pdf_bytes in the try
\* block comes to: fitz.open and doc[0] raise on bytes that are no PDF with
\* a page; on a PDF the render and the serialisation give the page bytes,
\* unless one of them raises (fault).
RenderOutcome(bytes, fault) ==
    IF bytes # Pdf THEN "open_failed"
    ELSE IF fault THEN "render_failed"
    ELSE "pdf_bytes"

\* Lines 453-462: the archive path of a rendered name, given the paths
\* counted so far.
ZipPath(used, folder, safe_name) ==
    IF CounterGet(used, PdfPath(folder, safe_name)) > 0
      THEN SuffixedPath(folder, safe_name,
                        CounterGet(used, PdfPath(folder, safe_name)) + 1)
      ELSE PdfPath(folder, safe_name)

\* Lines 442-464: the try block's archive entry when nothing raises.
PdfEntry(used, i, group, name) ==
    [path  |-> ZipPath(used, group, SafeName(name)),
     kind  |-> "pdf",
     task  |-> i,
     group |-> group,
     name  |-> name,
     msg   |-> "pdf_bytes"]

\* Lines 465-471: the except block's archive entry.
ErrEntry(i, group, name, exc) ==
    [path  |-> ErrPath(group, SafeName(name)),
     kind  |-> "error",
     task  |-> i,
     group |-> group,
     name  |-> name,
     msg   |-> exc]

\* st.progress raises on a value outside [0, 1]; the per-group bars are
\* updated outside the try block (lines 432-437).
ProgressRaises(done, counts) ==
    \E g \in GroupSet : counts[g] > 0 /\ done[g] > counts[g]

\* ItemPc without the except block: what the try block raises escapes too.
ItemPcNoCatch(done, counts, outcome) ==
    IF ProgressRaises(done, counts) \/ outcome # "pdf_bytes"
      THEN "crashed" ELSE "loop"

\* Where the loop is after one iteration: an exception of the progress
\* update escapes the loop; whatever the try block raises is caught by
\* "except Exception" and the loop goes on (lines 442, 465).
ItemPc(done, counts, outcome) ==
    IF ProgressRaises(done, counts) THEN "crashed" ELSE "loop"

\* ZipAfter with an except block that writes nothing.
ZipAfterSwallow(z, used, i, group, name, outcome) ==
    IF outcome = "pdf_bytes"
      THEN Append(z, PdfEntry(used, i, group, name))
      ELSE z

\* Lines 442-471: the archive after the iteration of task i: the PDF entry
\* of the try block, or the error entry of the except block.
ZipAfter(z, used, i, group, name, outcome) ==
    IF outcome = "pdf_bytes"
      THEN Append(z, PdfEntry(used, i, group, name))
      ELSE Append(z, ErrEntry(i, group, name, outcome))

\* Line 462, reached only when nothing raised before it.
UsedAfter(used, group, name, outcome) ==
    IF outcome = "pdf_bytes"
      THEN CounterInc(used, ZipPath(used, group, SafeName(name)))
      ELSE used

\* OpensAfter with the template opened on the first name of a group only.
OpensOncePerGroup(o, group) ==
    IF o[group] = 0 THEN [o EXCEPT ![group] = 1] ELSE o

\* Lines 108-111, run by every call of draw_name_on_template (line 450):
\* the template of the task's group is opened and rasterised again.
OpensAfter(o, group) == [o EXCEPT ![group] = @ + 1]

\* Lines 427-473: one iteration of the loop, for task idx + 1.
LoopStep ==
    /\ pc = "loop"
    /\ idx < Len(tasks)
    /\ \E fault \in BOOLEAN :
          LET i       == idx + 1
              group   == tasks[i].group
              name    == tasks[i].name
              done    == [group_done EXCEPT ![group] = @ + 1]
              outcome == RenderOutcome(tpl_bytes[group], fault)
          IN  /\ group_done' = done
              /\ pc' = ItemPc(done, group_counts, outcome)
              /\ IF ItemPc(done, group_counts, outcome) = "crashed"
                   THEN UNCHANGED <<used_zip_names, idx, zf, opens>>
                   ELSE /\ idx' = i
                        /\ opens' = OpensAfter(opens, group)
                        /\ zf' = ZipAfter(zf, used_zip_names, i, group, name, outcome)
                        /\ used_zip_names' =
                             UsedAfter(used_zip_names, group, name, outcome)
    /\ UNCHANGED <<stop_reason, gen, sheet, tpl_bytes, names, tasks, group_counts>>

\* Lines 475-480: the loop is over, the archive is closed and offered.
LoopEnd ==
    /\ pc = "loop"
    /\ idx = Len(tasks)
    /\ pc' = "done"
    /\ UNCHANGED <<stop_reason, gen, sheet, tpl_bytes, names, tasks,
                   group_counts, group_done, used_zip_names, idx, zf, opens>>

\* ------------------------------------------------------------------------
\* draw_name_on_template: fonts, autofit and placement
\* ------------------------------------------------------------------------

\* The largest base font size (pt) tried besides the default.
MaxFontPt == 4

\* The largest left and top offset of a measured text box.
MaxBearing == 2

DPI == 300

DEFAULT_FONT_PT == 19

\* DEFAULT_X_CM, DEFAULT_Y_CM and DEFAULT_MAX_WIDTH_CM in hundredths of a
\* centimetre (10.46, 16.50 and 16.0 cm).
DEFAULT_X_CM == 1046

DEFAULT_Y_CM == 1650

DEFAULT_MAX_WIDTH_CM == 1600

\* The smallest pixel size load_font and the autofit step ever use.
MIN_FONT_PX == 8

Max(a, b) == IF a >= b THEN a ELSE b

\* Python's round(n / d) for integers n and d > 0: to the nearest integer,
\* a tie to the even one.
RoundDiv(n, d) ==
    LET q == n \div d
        r == n % d
    IN  IF 2 * r < d THEN q
        ELSE IF 2 * r > d THEN q + 1
        ELSE IF q % 2 = 0 THEN q ELSE q + 1

\* cm_to_px(cm) = int(round((cm / 2.54) * dpi)), cm in hundredths.
cm_to_px(cm) == RoundDiv(cm * DPI, 254)

\* The two font files and the built-in font.
Bundled == "Times New Roman Italic.ttf"

Uploaded == "uploaded_times.ttf"

BuiltIn == "load_default"

VARIABLES
    rpc,               \* where the script and draw_name_on_template are
    FONT_PATH,         \* the module global (lines 54, 181)
    default_font_path, \* the default of font_path, bound at line 103
    ttf_upload,        \* whether a font was uploaded in this run
    bundled_exists,    \* whether the bundled font file is on disk
    uploaded_exists,   \* whether uploaded_times.ttf is on disk
    caller,            \* "preview" (line 282) or "batch" (line 450)
    font_path,         \* the font_path of the current call
    font0,             \* the font load_font returned (line 115)
    font,              \* the font in use
    x_px, y_px, max_w_px,
    bbox0,             \* the first measurement (line 124)
    bbox,              \* the measurement in use
    text_w, text_h,
    draw_x, draw_y,
    glyphs             \* the box of the glyphs as drawn (line 153)

renderVars == <<rpc, FONT_PATH, default_font_path, ttf_upload, bundled_exists,
                uploaded_exists, caller, font_path, font0, font, x_px, y_px,
                max_w_px, bbox0, bbox, text_w, text_h, draw_x, draw_y, glyphs>>

callVars == <<caller, font_path, font0, font, x_px, y_px, max_w_px, bbox0, bbox,
              text_w, text_h, draw_x, draw_y, glyphs>>

vars == <<batchVars, renderVars>>

NoBox == [left |-> 0, top |-> 0, right |-> 0, bottom |-> 0]

NoFont == [file |-> None, size |-> 0]

\* No call of draw_name_on_template is under way.
NoCall ==
    /\ caller = None
    /\ font_path = None
    /\ font0 = NoFont
    /\ font = NoFont
    /\ x_px = 0 /\ y_px = 0 /\ max_w_px = 0
    /\ bbox0 = NoBox
    /\ bbox = NoBox
    /\ text_w = 0 /\ text_h = 0
    /\ draw_x = 0 /\ draw_y = 0
    /\ glyphs = NoBox

\* The script has run to line 103: FONT_PATH is the bundled path (line 54)
\* and the def statement has evaluated the default of font_path.
RenderInit ==
    /\ rpc = "defined"
    /\ FONT_PATH = Bundled
    /\ default_font_path = Bundled
    /\ ttf_upload = FALSE
    /\ uploaded_exists = FALSE
    /\ NoCall

Exists(path) == IF path = Bundled THEN bundled_exists ELSE uploaded_exists

\* load_font, with font_path.exists() passed in: the truetype font of
\* font_path at max(8, round(font_pt * DPI / 72)) px when the file exists,
\* else the built-in font.
load_font(path, path_exists, font_pt) ==
    IF path_exists
      THEN [file |-> path, size |-> Max(MIN_FONT_PX, RoundDiv(font_pt * DPI, 72))]
      ELSE [file |-> BuiltIn, size |-> 0]

\* Lines 177-181: the font uploader.
UploadFont ==
    /\ rpc = "defined"
    /\ \E up \in BOOLEAN :
          /\ ttf_upload' = up
          /\ FONT_PATH' = IF up THEN Uploaded ELSE FONT_PATH
          /\ uploaded_exists' = (up \/ uploaded_exists)
    /\ rpc' = "ready"
    /\ UNCHANGED <<default_font_path, bundled_exists, callVars>>

\* The font path a call without a font_path argument gets: the default
\* bound when the function was defined.
CallFontPath(dflt, global) == dflt

FontPts == (1..MaxFontPt) \cup {DEFAULT_FONT_PT}

XCms == {DEFAULT_X_CM, 1000}

YCms == {DEFAULT_Y_CM}

MaxWidthCms == {DEFAULT_MAX_WIDTH_CM, 50}

PageHeights == {2480}

\* Lines 282 and 450, then 108-120: draw_name_on_template is called with
\* the sidebar values and no font_path; the page is rasterised, the font
\* loaded and the anchor converted to pixels.
CallDraw ==
    /\ rpc = "ready"
    /\ \E who \in {"preview", "batch"},
          X_CM \in XCms, Y_CM \in YCms,
          BASE_FONT_PT \in FontPts,
          MAX_WIDTH_CM \in MaxWidthCms,
          height \in PageHeights :
          LET path == CallFontPath(default_font_path, FONT_PATH)
          IN  /\ caller' = who
              /\ font_path' = path
              /\ font0' = load_font(path, Exists(path), BASE_FONT_PT)
              /\ font' = load_font(path, Exists(path), BASE_FONT_PT)
              /\ x_px' = cm_to_px(X_CM)
              /\ y_px' = height - cm_to_px(Y_CM)
              /\ max_w_px' = cm_to_px(MAX_WIDTH_CM)
    /\ rpc' = "called"
    /\ UNCHANGED <<FONT_PATH, default_font_path, ttf_upload, bundled_exists,
                   uploaded_exists, bbox0, bbox, text_w, text_h, draw_x, draw_y,
                   glyphs>>

\* The widths and heights a text can measure.
TextWidths == {40, 59, 60, 118, 1890, 1891, 3555}

TextHeights == {60, 61}

\* The widths a text can measure after the font was scaled down: at the
\* two maximum widths and one pixel over them.
RefitWidths == {59, 60, 1890, 1891}

\* The boxes draw.textbbox((0, 0), name, font) can return.
Boxes(widths, heights) ==
    {[left |-> l, top |-> t, right |-> l + w, bottom |-> t + h] :
        l \in 0..MaxBearing, t \in 0..MaxBearing, w \in widths, h \in heights}

\* Lines 122-128: measure the text.
MeasureText ==
    /\ rpc = "called"
    /\ \E b \in Boxes(TextWidths, TextHeights) :
          /\ bbox0' = b
          /\ bbox' = b
          /\ text_w' = b.right - b.left
          /\ text_h' = b.bottom - b.top
    /\ rpc' = "measured"
    /\ UNCHANGED <<FONT_PATH, default_font_path, ttf_upload, bundled_exists,
                   uploaded_exists, caller, font_path, font0, font, x_px, y_px,
                   max_w_px, draw_x, draw_y, glyphs>>

\* int(size * (max_w / w)) in floating point: the exact floor, except that
\* when size * max_w is an exact multiple of w the product of the rounded
\* quotient can fall just below the integer and truncate to one less
\* (int(22 * (15 / 22)) = 14, int(79 * (1890 / 3555)) = 41).
ScaledInts(size, max_w, w) ==
    IF (size * max_w) % w = 0
      THEN {(size * max_w) \div w, ((size * max_w) \div w) - 1}
      ELSE {(size * max_w) \div w}

\* NewFontPx without the floor of 8.
NewFontPxNoFloor(scaled) == scaled

\* new_font_px = max(8, int(font.size * scale)), line 136
NewFontPx(scaled) == Max(MIN_FONT_PX, scaled)

\* Lines 130-143: when the text is wider than the maximum and the font file
\* exists, reload the font at the scaled size and measure again; the
\* built-in font is left as it is.
Autofit ==
    /\ rpc = "measured"
    /\ IF text_w > max_w_px /\ font.file # BuiltIn /\ Exists(font_path)
         THEN \E scaled \in ScaledInts(font.size, max_w_px, text_w),
                 b \in Boxes({w \in RefitWidths : w <= text_w}, {text_h}) :
                 /\ font' = [file |-> font_path, size |-> NewFontPx(scaled)]
                 /\ bbox' = b
                 /\ text_w' = b.right - b.left
                 /\ text_h' = b.bottom - b.top
         ELSE UNCHANGED <<font, bbox, text_w, text_h>>
    /\ rpc' = "fitted"
    /\ UNCHANGED <<FONT_PATH, default_font_path, ttf_upload, bundled_exists,
                   uploaded_exists, caller, font_path, font0, x_px, y_px,
                   max_w_px, bbox0, draw_x, draw_y, glyphs>>

\* int(round(anchor - extent / 2.0)), lines 145-146
DrawOrigin(anchor, extent) == RoundDiv(2 * anchor - extent, 2)

\* Where ImageDraw.text puts the glyphs of a text drawn at (x, y) whose
\* textbbox at (0, 0) is b: the box b moved by (x, y).
GlyphBox(x, y, b) ==
    [left |-> x + b.left, top |-> y + b.top,
     right |-> x + b.right, bottom |-> y + b.bottom]

\* Lines 145-153: the draw origin from the measured width and height, then
\* the outline and the fill drawn at it.
DrawText ==
    /\ rpc = "fitted"
    /\ draw_x' = DrawOrigin(x_px, text_w)
    /\ draw_y' = DrawOrigin(y_px, text_h)
    /\ glyphs' = GlyphBox(DrawOrigin(x_px, text_w), DrawOrigin(y_px, text_h), bbox)
    /\ rpc' = "drawn"
    /\ UNCHANGED <<FONT_PATH, default_font_path, ttf_upload, bundled_exists,
                   uploaded_exists, caller, font_path, font0, font, x_px, y_px,
                   max_w_px, bbox0, bbox, text_w, text_h>>

\* Line 154: the image is returned; the next call starts afresh.
ReturnImage ==
    /\ rpc = "drawn"
    /\ rpc' = "ready"
    /\ caller' = None
    /\ font_path' = None
    /\ font0' = NoFont
    /\ font' = NoFont
    /\ x_px' = 0 /\ y_px' = 0 /\ max_w_px' = 0
    /\ bbox0' = NoBox
    /\ bbox' = NoBox
    /\ text_w' = 0 /\ text_h' = 0
    /\ draw_x' = 0 /\ draw_y' = 0
    /\ glyphs' = NoBox
    /\ UNCHANGED <<FONT_PATH, default_font_path, ttf_upload, bundled_exists,
                   uploaded_exists>>

\* ------------------------------------------------------------------------
\* Specifications
\* ------------------------------------------------------------------------

\* The Generate handler, with the render of each item taken as a whole.
Init ==
    /\ BatchInit
    /\ RenderInit
    /\ bundled_exists = TRUE

Next ==
    \/ ClickGenerate /\ UNCHANGED renderVars
    \/ PickTemplates /\ UNCHANGED renderVars
    \/ BuildTasks /\ UNCHANGED renderVars
    \/ LoopStep /\ UNCHANGED renderVars
    \/ LoopEnd /\ UNCHANGED renderVars

Spec == Init /\ [][Next]_vars

\* One script run up to and through calls of draw_name_on_template, on a
\* machine with or without the bundled font file.
InitRender ==
    /\ BatchInit
    /\ RenderInit
    /\ bundled_exists \in BOOLEAN

NextRender ==
    \/ UploadFont /\ UNCHANGED batchVars
    \/ CallDraw /\ UNCHANGED batchVars
    \/ MeasureText /\ UNCHANGED batchVars
    \/ Autofit /\ UNCHANGED batchVars
    \/ DrawText /\ UNCHANGED batchVars
    \/ ReturnImage /\ UNCHANGED batchVars

SpecRender == InitRender /\ [][NextRender]_vars

\* ------------------------------------------------------------------------
\* The claims about the generation loop (specification Spec)
\* ------------------------------------------------------------------------

Failures == {"open_failed", "render_failed"}

SumCounts ==
    group_counts[Groups[1]] + group_counts[Groups[2]] + group_counts[Groups[3]]

\* The archive entries written for task i.
EntriesOfTask(i) == {k \in 1..Len(zf) : zf[k].task = i}

\* The archive entries of group g, in the order written.
EntriesOfGroup(g) == SelectSeq(zf, LAMBDA e : e.group = g)

GroupIndex(g) == CHOOSE i \in 1..Len(Groups) : Groups[i] = g

\* An entry whose path is the one its kind calls for: a .pdf path (plain or
\* suffixed) of the task's group and sanitised name, or the _ERROR.txt path.
PathFits(e) ==
    IF e.kind = "pdf"
      THEN \/ e.path = PdfPath(e.group, SafeName(e.name))
           \/ \E n \in 2..(Len(tasks) + 1) :
                 e.path = SuffixedPath(e.group, SafeName(e.name), n)
      ELSE e.kind = "error" /\ e.path = ErrPath(e.group, SafeName(e.name))

\* C1 Batch completeness: no exception escapes the loop; while the loop
\* runs every task done so far has exactly one archive entry (a .pdf entry
\* or an _ERROR.txt entry of its group and name) and no later task has one;
\* when the loop has ended the number of entries equals the number of tasks
\* and the sum of the name counts of all groups.
C1_BatchCompleteness ==
    /\ pc # "crashed"
    /\ pc \in {"loop", "done"} =>
         /\ Len(tasks) = SumCounts
         /\ Len(zf) = idx
         /\ \A i \in 1..Len(tasks) :
               Cardinality(EntriesOfTask(i)) = IF i <= idx THEN 1 ELSE 0
         /\ \A k \in 1..Len(zf) :
               /\ zf[k].task \in 1..Len(tasks)
               /\ zf[k].group = tasks[zf[k].task].group
               /\ zf[k].name = tasks[zf[k].task].name
               /\ PathFits(zf[k])
    /\ pc = "done" => Len(zf) = SumCounts

\* C1 witness: a finished run of MaxTasks tasks with a success and a failure.
C1_Witness ==
    /\ pc = "done"
    /\ Len(tasks) = MaxTasks
    /\ \E k, m \in 1..Len(zf) : zf[k].kind = "pdf" /\ zf[m].kind = "error"

\* C2 Per-name failure isolation: a failure never ends the loop; every
\* error entry stands at the position of its task and carries that task's
\* group and name and the error raised; and when the loop has ended every
\* task after a failed one has its own entry.
C2_FailureIsolation ==
    /\ pc # "crashed"
    /\ \A k \in 1..Len(zf) :
          zf[k].kind = "error" =>
             /\ zf[k].task = k
             /\ zf[k].group = tasks[k].group
             /\ zf[k].name = tasks[k].name
             /\ zf[k].msg \in Failures
    /\ pc = "loop" => idx = Len(zf)
    /\ pc = "done" =>
          \A k \in 1..Len(zf) :
             zf[k].kind = "error" =>
                \A j \in (k + 1)..Len(tasks) : EntriesOfTask(j) # {}

\* C2 witness: a finished run whose first task failed on a good template,
\* a later task failed too, and a task after a failure succeeded.
C2_Witness ==
    /\ pc = "done"
    /\ Len(zf) >= 3
    /\ zf[1].msg = "render_failed"
    /\ \E k, m \in 2..Len(zf) :
          k < m /\ zf[k].kind = "error" /\ zf[m].kind = "pdf"

\* C3 as stated: a selected group whose template cannot be used never
\* aborts a sibling group that has a usable template (the run is not
\* stopped for a missing template while a selected group holds a PDF), and
\* the names of a group whose bytes are no PDF are failures.
C3_GroupIsolationAsStated ==
    /\ ~(/\ pc = "stopped"
         /\ stop_reason = "missing_template"
         /\ \E g \in GroupSet : gen[g] /\ tpl_bytes[g] = Pdf)
    /\ \A k \in 1..Len(zf) :
          tpl_bytes[zf[k].group] # Pdf => zf[k].kind = "error"

\* C3 amended: a selected group whose template is missing stops the whole
\* run before any task is built (no outcome for any group); past that
\* check every selected group holds bytes.  A group whose bytes do not
\* open as a PDF with a page has each of its names recorded as a failure
\* that carries the open error; the names of a group with a usable template
\* are rendered, each succeeding unless its own render fails; and the run
\* ends with an entry for every task of every group.
C3_GroupIsolation ==
    /\ pc = "stopped" /\ stop_reason = "missing_template" =>
          /\ \E g \in GroupSet : gen[g] /\ tpl_bytes[g] = None
          /\ tasks = <<>> /\ zf = <<>>
    /\ pc \in {"read", "loop", "done"} =>
          \A g \in GroupSet : gen[g] => tpl_bytes[g] \in {Garbage, Pdf}
    /\ \A k \in 1..Len(zf) :
          /\ tpl_bytes[zf[k].group] = Garbage =>
                zf[k].kind = "error" /\ zf[k].msg = "open_failed"
          /\ tpl_bytes[zf[k].group] = Pdf =>
                zf[k].kind = "pdf" \/ zf[k].msg = "render_failed"
    /\ pc = "done" =>
          \A g \in GroupSet : Len(EntriesOfGroup(g)) = group_counts[g]

\* C3 witness: a finished run with a group on unusable bytes and a group
\* on a usable template, both with names, the latter all rendered.
C3_Witness ==
    /\ pc = "done"
    /\ \E g, h \in GroupSet :
          /\ tpl_bytes[g] = Garbage /\ group_counts[g] > 0
          /\ tpl_bytes[h] = Pdf /\ group_counts[h] > 1
          /\ \A k \in 1..Len(zf) : zf[k].group = h => zf[k].kind = "pdf"

\* C4 Order preservation: the k-th entry of the archive belongs to the k-th
\* task; the entries of QUALIFIED come before those of PARTICIPATED, and
\* these before those of SMART_EDGE_WORKSHOP; and inside a group the j-th
\* entry carries the (trimmed) j-th name of the group's list, failed or not.
C4_OrderPreserved ==
    /\ \A k \in 1..Len(zf) : zf[k].task = k
    /\ \A k, m \in 1..Len(zf) :
          k < m => GroupIndex(zf[k].group) <= GroupIndex(zf[m].group)
    /\ \A g \in GroupSet :
          /\ Len(EntriesOfGroup(g)) <= Len(names[g])
          /\ \A j \in 1..Len(EntriesOfGroup(g)) :
                EntriesOfGroup(g)[j].name = Strip(names[g][j])
          /\ pc = "done" => Len(EntriesOfGroup(g)) = Len(names[g])

\* C4 witness: a finished run over two groups, one of them with two
\* different names, and with a failed item.
C4_Witness ==
    /\ pc = "done"
    /\ \E g, h \in GroupSet :
          /\ g # h
          /\ Len(names[g]) >= 2 /\ names[g][1] # names[g][2]
          /\ Len(names[h]) >= 1
    /\ \E k \in 1..Len(zf) : zf[k].kind = "error"

\* C5 Filename collision handling: no two archive entries written during
\* one run have the same path (stated here for the rendered certificates of
\* non-empty names: a later colliding item gets a suffix of its own).
C5_UniquePaths ==
    \A k, m \in 1..Len(zf) :
       /\ k # m
       /\ zf[k].kind = "pdf" /\ zf[m].kind = "pdf"
       /\ zf[k].name # <<>> /\ zf[m].name # <<>>
       => zf[k].path # zf[m].path

\* C6 Empty-name rejection: a name that is empty after trimming is never
\* rendered: its archive entry, if any, is an error entry.
C6_EmptyNameRejected ==
    \A k \in 1..Len(zf) : zf[k].name = <<>> => zf[k].kind = "error"

\* C9 as stated: when the loop has ended, the template of every group with
\* names has been opened and rasterised exactly once.
C9_PreparedOncePerGroup ==
    pc = "done" =>
       \A g \in GroupSet : opens[g] = IF group_counts[g] > 0 THEN 1 ELSE 0

\* C9 amended: the template bytes of each selected group are fetched once,
\* before the loop; the template is opened and rasterised once per task,
\* inside draw_name_on_template, so the number of preparations of a group
\* equals the number of its names processed so far, and the number of its
\* names when the loop has ended.
C9_PreparedOncePerName ==
    /\ \A g \in GroupSet :
          /\ opens[g] = Len(EntriesOfGroup(g))
          /\ pc = "loop" => opens[g] = group_done[g]
          /\ pc = "done" => opens[g] = group_counts[g]
    /\ pc \in {"idle", "templates", "read"} => opens = ZeroCounts

\* C9 witness: a finished run with a group of at least two names.
C9_Witness ==
    /\ pc = "done"
    /\ \E g \in GroupSet : group_counts[g] >= 2 /\ opens[g] >= 2

\* C11 Progress counters stay in range: no progress update raises; at every
\* iteration group_done[g] <= group_counts[g] for every group and
\* idx <= total, so the fractions done / total_g (for the groups that have a
\* bar) and idx / total lie in [0, 1]; group_done counts exactly the tasks of
\* the group among the first idx; and when the loop has ended
\* group_done[g] = group_counts[g] for every group and idx = total.
C11_ProgressInRange ==
    /\ pc # "crashed"
    /\ \A g \in GroupSet :
          /\ 0 <= group_done[g] /\ group_done[g] <= group_counts[g]
          /\ pc \in {"loop", "done"} =>
                group_done[g] =
                   Cardinality({i \in 1..idx : tasks[i].group = g})
          /\ pc = "done" => group_done[g] = group_counts[g]
    /\ 0 <= idx /\ idx <= Len(tasks)
    /\ pc = "loop" => Len(tasks) > 0
    /\ pc = "done" => idx = Len(tasks) /\ Len(tasks) > 0

\* C11 witness: a finished run over two groups, one with two names, whose
\* counters have reached the counts.
C11_Witness ==
    /\ pc = "done"
    /\ idx = MaxTasks
    /\ \E g, h \in GroupSet :
          /\ g # h
          /\ group_counts[g] = 2 /\ group_done[g] = 2
          /\ group_counts[h] = 1 /\ group_done[h] = 1

\* ------------------------------------------------------------------------
\* The claims about draw_name_on_template (specification SpecRender)
\* ------------------------------------------------------------------------

Abs(n) == IF n < 0 THEN -n ELSE n

\* The autofit step of the current call is over.
Fitted == rpc \in {"fitted", "drawn"}

\* The desired size of the call: the pixel size load_font gave the base
\* font size, and the width measured at it.
DesiredPx == font0.size

MeasuredW == bbox0.right - bbox0.left

\* C7 as stated: with the font file available, the size chosen is the
\* desired size when the width measured at it is <= the maximum width;
\* otherwise it is max(8, floor(desired * max_width / measured_width)),
\* strictly less than the desired size and never below 8.
C7_AutofitAsStated ==
    Fitted /\ font0.file # BuiltIn =>
       IF MeasuredW <= max_w_px
         THEN font.size = DesiredPx
         ELSE /\ font.size = Max(8, (DesiredPx * max_w_px) \div MeasuredW)
              /\ font.size < DesiredPx
              /\ font.size >= 8

\* C7 amended: with the font file available and the desired size taken as
\* the pixel size load_font loads (never below 8), the size chosen is the
\* desired size when the width measured at it is <= the maximum width;
\* otherwise it is max(8, int(desired * (max_width / measured_width))) as
\* floating point computes it, which is
\* max(8, floor(desired * max_width / measured_width)) or, only when
\* desired * max_width is an exact multiple of measured_width, possibly the
\* same with the floor one less; it is never below 8, never above the
\* desired size, and strictly less than it whenever the desired size
\* exceeds 8.
C7_Autofit ==
    Fitted /\ font0.file # BuiltIn =>
       IF MeasuredW <= max_w_px
         THEN font.size = DesiredPx
         ELSE /\ \/ font.size = Max(8, (DesiredPx * max_w_px) \div MeasuredW)
                 \/ /\ (DesiredPx * max_w_px) % MeasuredW = 0
                    /\ font.size = Max(8, ((DesiredPx * max_w_px) \div MeasuredW) - 1)
              /\ font.size >= 8
              /\ font.size <= DesiredPx
              /\ DesiredPx > 8 => font.size < DesiredPx

\* C7 witness: the default 19 pt font (79 px) on a text one pixel wider
\* than the default maximum width is scaled down to 78 px.
C7_Witness ==
    /\ rpc = "fitted"
    /\ font0.file = Bundled
    /\ DesiredPx = 79 /\ max_w_px = 1890 /\ MeasuredW = 1891
    /\ font.size = 78

\* C8 Centering invariant: the box of the glyphs as drawn has its
\* horizontal midpoint within 1 pixel of the anchor x and its vertical
\* midpoint within 1 pixel of page_height minus the anchor y (midpoints
\* doubled, to stay in the integers).
C8_Centered ==
    rpc = "drawn" =>
       /\ Abs((glyphs.left + glyphs.right) - 2 * x_px) <= 2
       /\ Abs((glyphs.top + glyphs.bottom) - 2 * y_px) <= 2

\* C10 Font resolution order: every render of a run uses the uploaded font
\* when one was uploaded in that run, otherwise the bundled font file when
\* it exists, otherwise the built-in font.
C10_FontResolution ==
    rpc \in {"called", "measured", "fitted", "drawn"} =>
       font.file = IF ttf_upload THEN Uploaded
                   ELSE IF bundled_exists THEN Bundled
                   ELSE BuiltIn

=============================================================================
